---- MODULE Spec2Model ----
(***************************************************************************)
(* Meteorite landings dashboard (Final_Project.py): the three aggregation  *)
(* functions over the loaded data frame, the four pages that call them,    *)
(* and the sidebar navigation that picks the page on every script run.     *)
(*                                                                         *)
(* A cell of the data frame is a sequence: <<>> is a missing value (NaN),  *)
(* <<n>> a number, <<"L6">> a label, and a name is the sequence of its     *)
(* characters.  A row is a function from column names to cells and a data  *)
(* frame is [columns, rows].                                               *)
(***************************************************************************)
EXTENDS Integers, Sequences, FiniteSets, TLC

VARIABLES file,           \* rows of Meteorite_Landings.csv (never written)
          prevRaised,     \* history: what the run before the latest one raised
          meteordf,       \* the data frame object of the latest load
          float_format,   \* pd.options.display.float_format (process-wide)
          result,         \* outcome of the latest call or page render
          session_state,  \* st.session_state: [page |-> ...]
          navigation,     \* value of the sidebar selectbox
          yearsInput,     \* value of the year page's multiselect
          classInput,     \* value of the classification page's selectbox
          letterLst,      \* value of the names page's multiselect
          alphabetical    \* value of the names page's checkbox

vars == <<file, prevRaised, meteordf, float_format, result, session_state, navigation,
          yearsInput, classInput, letterLst, alphabetical>>

-----------------------------------------------------------------------------
(* Bounds and input domains *)

\* Rows of the file in the specification of direct calls.
MaxRows == 2

\* Rows of the file in the specification of a browser session.
MaxSessionRows == 2

NaN == <<>>

Columns == <<"name", "id", "recclass", "mass (g)", "year", "reclat", "reclong">>

ColumnSet == {Columns[i] : i \in 1..Len(Columns)}

Row(name, id, recclass, mass, year, reclat, reclong) ==
    [c \in ColumnSet |->
        CASE c = "name"     -> name
          [] c = "id"       -> id
          [] c = "recclass" -> recclass
          [] c = "mass (g)" -> mass
          [] c = "year"     -> year
          [] c = "reclat"   -> reclat
          [] c = "reclong"  -> reclong]

Blank(base, pat) == [c \in DOMAIN base |-> IF c \in pat THEN NaN ELSE base[c]]

\* Complete records; the rows of a file are these with some cells missing.
Abee == Row(<<"a","b","e","e">>, <<1>>, <<"L6">>, <<1>>, <<860>>,  <<54>>, <<-113>>)

Ourique == Row(<<"O","u">>, <<2>>, <<"L5">>, <<3>>, <<1970>>, <<37>>, <<-8>>)

Abo == Row(<<"A","b","o">>, <<3>>, <<"L6">>, <<3>>, <<860>>, <<54>>, <<-113>>)

\* Which cells of a record the file leaves empty.  The code reads latitude
\* and longitude only through dropna and the overall means, as it does the
\* mass, so a missing mass stands for a missing coordinate too.
MissingPatterns == {{}, {"name"}, {"id"}, {"recclass"}, {"year"}, {"mass (g)"}}

\* Files read in the specification of direct calls.
AggFiles ==
    UNION {[1..n -> {Blank(b, p) : b \in {Abee, Ourique, Abo}, p \in MissingPatterns}] :
              n \in 0..MaxRows}

\* Files read in the specification of a browser session.
Files ==
    UNION {[1..n -> {Blank(b, p) : b \in {Abee, Ourique}, p \in MissingPatterns}] :
              n \in 0..MaxSessionRows}

\* Arguments tried for getMeteorsPerYear: 1999 is in no file.
YearRequests ==
    { <<>>, <<860>>, <<1970>>, <<1999>>, <<860, 1970>>, <<1970, 860>>,
      <<860, 860>>, <<860, 1999>> }

\* Arguments tried for sortClassAndFindValues: H5 is in no file.
ClassRequests == {"L6", "L5", "H5"}

-----------------------------------------------------------------------------
(* Helpers standing for the pandas primitives the code uses *)

RECURSIVE SortedSeq(_)
SortedSeq(S) ==
    IF S = {} THEN <<>>
    ELSE LET m == CHOOSE x \in S : \A y \in S : x <= y
         IN  <<m>> \o SortedSeq(S \ {m})

RECURSIVE Sum(_)
Sum(s) == IF s = <<>> THEN 0 ELSE Head(s) + Sum(Tail(s))

RECURSIVE Flatten(_)
Flatten(ss) == IF ss = <<>> THEN <<>> ELSE Head(ss) \o Flatten(Tail(ss))

Range(s) == {s[i] : i \in 1..Len(s)}

\* The non-missing numbers of a column, in row order.
Values(rows, c) ==
    LET present == SelectSeq(rows, LAMBDA r : r[c] # NaN)
    IN  [i \in 1..Len(present) |-> present[i][c][1]]

\* A mean is kept exact as [sum, n]; n = 0 is pandas' NaN.
Mean(s) == [sum |-> Sum(s), n |-> Len(s)]

Max(s) == CHOOSE x \in Range(s) : \A y \in Range(s) : y <= x

Min(s) == CHOOSE x \in Range(s) : \A y \in Range(s) : x <= y

\* pd.read_csv("Meteorite_Landings.csv"): a new frame with the file's rows.
read_csv == [columns |-> Columns, rows |-> file]

\* Variant: the frame of the previous run is handed out again.
getData_cached == IF result.fn = "" THEN read_csv ELSE meteordf

getData == read_csv

dropna(df) ==
    [df EXCEPT !.rows = SelectSeq(df.rows, LAMBDA r : \A c \in DOMAIN r : r[c] # NaN)]

\* DataFrame.sort_values(by=["year"]): stable, ascending, missing years last.
sort_values(df) ==
    LET years == SortedSeq({r["year"][1] : r \in {x \in Range(df.rows) : x["year"] # NaN}})
        part(y) == SelectSeq(df.rows, LAMBDA r : r["year"] = <<y>>)
    IN  [df EXCEPT !.rows =
            Flatten([i \in 1..Len(years) |-> part(years[i])])
            \o SelectSeq(df.rows, LAMBDA r : r["year"] = NaN)]

\* Variant: only the years that have at least one id get a group.
GroupByYearCount_idOnly(df) ==
    LET keys == SortedSeq({r["year"][1] : r \in {x \in Range(df.rows) :
                                x["year"] # NaN /\ x["id"] # NaN}})
        cnt(y) == Len(SelectSeq(df.rows, LAMBDA r : r["year"] = <<y>> /\ r["id"] # NaN))
    IN  [i \in 1..Len(keys) |-> <<keys[i], cnt(keys[i])>>]

\* df.groupby("year")['id'].count(): a Series, as <<label, value>> pairs in
\* ascending label order.  A group with no id at all is kept, with count 0.
GroupByYearCount(df) ==
    LET keys == SortedSeq({r["year"][1] : r \in {x \in Range(df.rows) : x["year"] # NaN}})
        cnt(y) == Len(SelectSeq(df.rows, LAMBDA r : r["year"] = <<y>> /\ r["id"] # NaN))
    IN  [i \in 1..Len(keys) |-> <<keys[i], cnt(keys[i])>>]

Index(series) == {series[i][1] : i \in 1..Len(series)}

At(series, label) == (CHOOSE i \in 1..Len(series) : series[i][1] = label)

\* Variant: the entries come back in index order instead of request order.
LocList_sorted(series, labels) ==
    IF \E i \in 1..Len(labels) : labels[i] \notin Index(series)
    THEN [raised |-> "KeyError", value |-> <<>>]
    ELSE [raised |-> "",
          value  |-> SelectSeq(series, LAMBDA e : e[1] \in Range(labels))]

\* Variant: a label that is not in the index is left out instead of raising.
LocList_skipMissing(series, labels) ==
    LET found == SelectSeq(labels, LAMBDA y : y \in Index(series))
    IN  [raised |-> "", value |-> [i \in 1..Len(found) |-> series[At(series, found[i])]]]

\* Series.loc[list]: one entry per requested label, in the order requested;
\* KeyError if a label is not in the index.
LocList(series, labels) ==
    IF \E i \in 1..Len(labels) : labels[i] \notin Index(series)
    THEN [raised |-> "KeyError", value |-> <<>>]
    ELSE [raised |-> "", value |-> [i \in 1..Len(labels) |-> series[At(series, labels[i])]]]

getMeteorsPerYear(df, years) ==
    LET yearsdf      == sort_values(df)
        yearsCountdf == GroupByYearCount(yearsdf)
    IN  LocList(yearsCountdf, years)

\* DataFrame.groupby(col): the labels (missing labels get no group) and the
\* rows of one group, in row order.
GroupKeys(df, col) == {r[col][1] : r \in {x \in Range(df.rows) : x[col] # NaN}}

Group(df, col, k) == SelectSeq(df.rows, LAMBDA r : r[col] = <<k>>)

\* Series.mean(): missing values skipped.
SeriesMean(df, c) == Mean(Values(df.rows, c))

sortClassAndFindValues(df, recclass) ==
    LET grouped   == dropna(df)
        keys      == GroupKeys(grouped, "recclass")
        rowsOf(k) == Group(grouped, "recclass", k)
        means(k)  == Mean(Values(rowsOf(k), "mass (g)"))
        count(k)  == Len(SelectSeq(rowsOf(k), LAMBDA r : r["name"] # NaN))
        maxgroups(k) == Max(Values(rowsOf(k), "mass (g)"))
        mingroups(k) == Min(Values(rowsOf(k), "mass (g)"))
    IN  IF recclass \notin keys
        THEN \* line 49: .loc[recclass] raises before the option is set
             [raised |-> "KeyError", value |-> <<>>, float_format |-> float_format]
        ELSE [raised |-> "",
              value  |-> [aveweight       |-> SeriesMean(df, "mass (g)"),
                          avelat          |-> SeriesMean(df, "reclat"),
                          avelong         |-> SeriesMean(df, "reclong"),
                          meanweightclass |-> means(recclass),
                          count           |-> count(recclass),
                          maxweight       |-> maxgroups(recclass),
                          minweight       |-> mingroups(recclass)],
              float_format |-> "{:.0f}"]

\* str.upper() on the characters that begin a name.
Upper(ch) ==
    CASE ch = "a" -> "A"
      [] ch = "o" -> "O"
      [] OTHER    -> ch

\* Variant: the grouping key is the first character as written.
FirstLetter_noUpper(name) == IF name = NaN THEN NaN ELSE <<Head(name)>>

\* meteordf["name"].str[0].str.upper(), for one cell.
FirstLetter(name) == IF name = NaN THEN NaN ELSE <<Upper(Head(name))>>

\* Line 73: the column is added to (or overwritten in) the caller's frame.
WithFirstLetter(df) ==
    [columns |-> IF "firstLetter" \in Range(df.columns) THEN df.columns
                 ELSE Append(df.columns, "firstLetter"),
     rows    |-> [i \in 1..Len(df.rows) |->
                    [c \in DOMAIN df.rows[i] \cup {"firstLetter"} |->
                        IF c = "firstLetter" THEN FirstLetter(df.rows[i]["name"])
                        ELSE df.rows[i][c]]]]

\* Lines 76-79: letter -> names of its group, in row order.
NamesDict(df2) ==
    [k \in GroupKeys(df2, "firstLetter") |->
        LET g == Group(df2, "firstLetter", k)
        IN  [i \in 1..Len(g) |-> g[i]["name"]]]

Grouped(df2) == [namesdict |-> NamesDict(df2), meteordf |-> df2]

\* Returns the dictionary and the frame as the call leaves it.
sortName(df) == Grouped(WithFirstLetter(df))

-----------------------------------------------------------------------------
(* The pages *)

None == "None"

Menu == <<"Home", "Map", "Year", "Classification", "Names">>

LetterMenu ==
    <<"A", "B", "C", "D", "E", "F", "G", "H", "I", "J", "K", "L", "M", "N", "O",
      "P", "Q", "R", "S", "T", "U", "V", "W", "X", "Y", "Z">>

\* Series.drop_duplicates(): first occurrences, in order.
drop_duplicates(s) ==
    LET F[i \in 0..Len(s)] ==
            IF i = 0 THEN <<>>
            ELSE IF s[i] \in Range(F[i-1]) THEN F[i-1] ELSE Append(F[i-1], s[i])
    IN  F[Len(s)]

\* st.selectbox: the chosen option, else the first one, else None.
selectbox(options, chosen) ==
    IF chosen \in Range(options) THEN chosen
    ELSE IF options = <<>> THEN None ELSE options[1]

\* What a page leaves behind: what it shows (or that it raised), the frame
\* and the display option after it, and the value of the class selectbox.
Outcome(shown, df, fmt, class) ==
    [shown |-> shown, meteordf |-> df, float_format |-> fmt, class |-> class]

homePage == [fn |-> "homePage", args |-> <<>>, raised |-> "", value |-> <<>>]

\* The layer of the map is built from the rows with no missing cell.
mapPage(df) ==
    Outcome([fn |-> "mapPage", args |-> <<>>, raised |-> "", value |-> dropna(df)],
            df, float_format, None)

\* Options of the year page's multiselect (line 119).
YearOptions(df) == SortedSeq(Range(Values(df.rows, "year")))

YearsShown(years, yearsOfInterest) ==
    [fn |-> "meteorYearsPage", args |-> years,
     raised |-> yearsOfInterest.raised, value |-> yearsOfInterest.value]

meteorYearsPage(df, years) ==
    Outcome(YearsShown(years, getMeteorsPerYear(df, years)), df, float_format, None)

\* Options of the classification page's selectbox (line 148).
ClassOptions(df) == drop_duplicates(Values(df.rows, "recclass"))

\* a/b compared with c/d, both denominators positive.
Less(x, y) == x.sum * y.n < y.sum * x.n

\* Lines 159-163: which sentence, if any, compares the class with the average.
Verdict(v) ==
    IF v.aveweight.n = 0 THEN ""
    ELSE IF Less(v.aveweight, v.meanweightclass) THEN "heavier"
    ELSE IF Less(v.meanweightclass, v.aveweight) THEN "less heavy"
    ELSE ""

ClassShown(df, classInput1, r) ==
    Outcome([fn |-> "classificationPage", args |-> classInput1, raised |-> r.raised,
             value |-> IF r.raised # "" THEN <<>> ELSE <<r.value, Verdict(r.value)>>],
            df, r.float_format, classInput1)

ClassSelected(df, classInput1) ==
    ClassShown(df, classInput1, sortClassAndFindValues(df, classInput1))

classificationPage(df, class) == ClassSelected(df, selectbox(ClassOptions(df), class))

Pos(letter) == CHOOSE i \in 1..Len(LetterMenu) : LetterMenu[i] = letter

\* sorted(lettercountsdict.keys())
sorted(letters) ==
    LET ps == SortedSeq({Pos(letters[i]) : i \in 1..Len(letters)})
    IN  [i \in 1..Len(ps) |-> LetterMenu[ps[i]]]

\* The bar chart (letters in the order chosen by the checkbox) and the
\* names listed under each selected letter.
NamesShown(namesDict, letters, keys) ==
    [bar   |-> [i \in 1..Len(keys) |-> <<keys[i], Len(namesDict[keys[i]])>>],
     names |-> [i \in 1..Len(letters) |-> <<letters[i], namesDict[letters[i]]>>]]

NamesListed(sn, letters, alpha) ==
    IF \E i \in 1..Len(letters) : letters[i] \notin DOMAIN sn.namesdict
    THEN \* line 187: namesDict[letter] raises for a letter with no name
         Outcome([fn |-> "namepage", args |-> letters, raised |-> "KeyError",
                  value |-> <<>>],
                 sn.meteordf, float_format, None)
    ELSE Outcome([fn |-> "namepage", args |-> letters, raised |-> "",
                  value |-> NamesShown(sn.namesdict, letters,
                                       IF alpha THEN sorted(letters) ELSE letters)],
                 sn.meteordf, float_format, None)

namepage(df, letters, alpha) == NamesListed(sortName(df), letters, alpha)

-----------------------------------------------------------------------------
(* Navigation and the script run *)

Unset == "<unset>"

\* Variant: the branch for 'Names' is missing.
nav_noNames(ss, selected) ==
    LET s1 == IF ss.page = Unset THEN [ss EXCEPT !.page = "home"] ELSE ss
    IN  IF selected = "Home" THEN [s1 EXCEPT !.page = "Home"]
        ELSE IF selected = "Year" THEN [s1 EXCEPT !.page = "Year"]
        ELSE IF selected = "Map" THEN [s1 EXCEPT !.page = "Map"]
        ELSE IF selected = "Classification" THEN [s1 EXCEPT !.page = "Classification"]
        ELSE s1

\* nav(): session_state after the sidebar selectbox returned `selected`.
nav(ss, selected) ==
    LET s1 == IF ss.page = Unset THEN [ss EXCEPT !.page = "home"] ELSE ss
    IN  IF selected = "Home" THEN [s1 EXCEPT !.page = "Home"]
        ELSE IF selected = "Year" THEN [s1 EXCEPT !.page = "Year"]
        ELSE IF selected = "Map" THEN [s1 EXCEPT !.page = "Map"]
        ELSE IF selected = "Classification" THEN [s1 EXCEPT !.page = "Classification"]
        ELSE IF selected = "Names" THEN [s1 EXCEPT !.page = "Names"]
        ELSE s1

\* The page main() dispatches to for a page value, on frame df with the
\* widgets at the given values.
Dispatch(page, df, years, class, letters, alpha) ==
    IF page = "Home" \/ page \notin Range(Menu)
    THEN Outcome(homePage, df, float_format, None)
    ELSE IF page = "Year" THEN meteorYearsPage(df, years)
    ELSE IF page = "Map" THEN mapPage(df)
    ELSE IF page = "Classification" THEN classificationPage(df, class)
    ELSE namepage(df, letters, alpha)

\* The state a run of the script leaves.  A widget that the run does not
\* reach goes back to its default.
Finish(ss, selected, out, years, letters, alpha) ==
    /\ session_state' = ss
    /\ navigation' = selected
    /\ meteordf' = out.meteordf
    /\ float_format' = out.float_format
    /\ prevRaised' = result.raised
    /\ result' = out.shown
    /\ yearsInput' = IF out.shown.fn = "meteorYearsPage" THEN years ELSE <<>>
    /\ classInput' = out.class
    /\ letterLst' = IF out.shown.fn = "namepage" THEN letters ELSE <<>>
    /\ alphabetical' = IF out.shown.fn = "namepage" /\ out.shown.raised = ""
                       THEN alpha ELSE FALSE
    /\ UNCHANGED file

Dispatched(ss, selected, years, class, letters, alpha) ==
    Finish(ss, selected, Dispatch(ss.page, getData, years, class, letters, alpha),
           years, letters, alpha)

\* One run of the script, main(), with the widgets at the given values.
main(selected, years, class, letters, alpha) ==
    Dispatched(nav(session_state, selected), selected, years, class, letters, alpha)

-----------------------------------------------------------------------------
(* Specification of direct calls to the aggregation functions *)

NoResult == [fn |-> "", args |-> <<>>, raised |-> "", value |-> <<>>]

Start(files) ==
    /\ file \in files
    /\ prevRaised = ""
    /\ meteordf = read_csv
    /\ float_format = None
    /\ result = NoResult
    /\ session_state = [page |-> Unset]
    /\ navigation = "Home"
    /\ yearsInput = <<>>
    /\ classInput = None
    /\ letterLst = <<>>
    /\ alphabetical = FALSE

InitAgg == Start(AggFiles)

CallGetMeteorsPerYear ==
    \E years \in YearRequests :
        LET r == getMeteorsPerYear(meteordf, years)
        IN  /\ result' = [fn |-> "getMeteorsPerYear", args |-> years,
                          raised |-> r.raised, value |-> r.value]
            /\ UNCHANGED <<file, prevRaised, meteordf, float_format, session_state, navigation,
                           yearsInput, classInput, letterLst, alphabetical>>

CallSortClassAndFindValues ==
    \E recclass \in ClassRequests :
        LET r == sortClassAndFindValues(meteordf, recclass)
        IN  /\ result' = [fn |-> "sortClassAndFindValues", args |-> recclass,
                          raised |-> r.raised, value |-> r.value]
            /\ float_format' = r.float_format
            /\ UNCHANGED <<file, prevRaised, meteordf, session_state, navigation,
                           yearsInput, classInput, letterLst, alphabetical>>

CallSortName ==
    LET r == sortName(meteordf)
    IN  /\ result' = [fn |-> "sortName", args |-> <<>>, raised |-> "",
                      value |-> r.namesdict]
        /\ meteordf' = r.meteordf
        /\ UNCHANGED <<file, prevRaised, float_format, session_state, navigation,
                       yearsInput, classInput, letterLst, alphabetical>>

NextAgg ==
    \/ CallGetMeteorsPerYear
    \/ CallSortClassAndFindValues
    \/ CallSortName

SpecAgg == InitAgg /\ [][NextAgg]_vars

-----------------------------------------------------------------------------
(* Specification of a browser session *)

\* The selections a multiselect over the given options can hold.
Selections(options) ==
    {s \in UNION {[1..n -> options] : n \in 0..Cardinality(options)} :
        \A i, j \in 1..Len(s) : i # j => s[i] # s[j]}

\* Selections tried on the names page: no name begins with Q.
LetterSelections == {<<>>, <<"A">>, <<"Q">>, <<"O", "A">>}

\* The script runs with every widget as it is (the first load, or a rerun).
Rerun == main(navigation, yearsInput, classInput, letterLst, alphabetical)

SelectPage ==
    /\ result.fn # ""
    /\ \E p \in Range(Menu) \ {navigation} : main(p, <<>>, None, <<>>, FALSE)

SelectYears ==
    /\ result.fn = "meteorYearsPage"
    /\ \E years \in Selections(Range(YearOptions(read_csv))) \ {yearsInput} :
          main(navigation, years, None, <<>>, FALSE)

SelectClass ==
    /\ result.fn = "classificationPage"
    /\ \E class \in Range(ClassOptions(read_csv)) \ {classInput} :
          main(navigation, <<>>, class, <<>>, FALSE)

SelectLetters ==
    /\ result.fn = "namepage"
    /\ \E letters \in LetterSelections \ {letterLst} :
          main(navigation, <<>>, None, letters, alphabetical)

\* The checkbox (line 190) exists only if the loop before it did not raise.
ToggleAlphabetical ==
    /\ result.fn = "namepage"
    /\ result.raised = ""
    /\ main(navigation, <<>>, None, letterLst, ~alphabetical)

Init == Start(Files)

Next ==
    \/ Rerun
    \/ SelectPage
    \/ SelectYears
    \/ SelectClass
    \/ SelectLetters
    \/ ToggleAlphabetical

Spec == Init /\ [][Next]_vars

-----------------------------------------------------------------------------
(* Properties of the aggregation functions, checked under SpecAgg *)

\* The rows of the file of class c in which name, classification, mass,
\* latitude and longitude are all present.
FiveFieldRows(c) ==
    SelectSeq(file, LAMBDA r : /\ r["recclass"] = <<c>>
                               /\ r["name"] # NaN
                               /\ r["mass (g)"] # NaN
                               /\ r["reclat"] # NaN
                               /\ r["reclong"] # NaN)

\* C1: whenever class c has a row with name, classification, mass, latitude
\* and longitude all present, sortClassAndFindValues succeeds and its count,
\* mean, max and min mass are those of exactly these rows of class c.
C1_StatsOverFiveFieldRows ==
    result.fn = "sortClassAndFindValues" =>
        LET q == FiveFieldRows(result.args)
            m == Values(q, "mass (g)")
        IN  q # <<>> =>
              /\ result.raised = ""
              /\ result.value.count = Len(q)
              /\ result.value.meanweightclass = Mean(m)
              /\ result.value.maxweight = Max(m)
              /\ result.value.minweight = Min(m)

\* C2 (as claimed): the entries returned by getMeteorsPerYear are in
\* ascending year order whatever the order of the request.
C2_AscendingYearOrder ==
    (result.fn = "getMeteorsPerYear" /\ result.raised = "") =>
        \A i, j \in 1..Len(result.value) :
            i < j => result.value[i][1] <= result.value[j][1]

\* C2 (amended): the entries returned by getMeteorsPerYear are one per
\* requested year, in the order in which the years were requested.
C2_RequestOrder ==
    (result.fn = "getMeteorsPerYear" /\ result.raised = "") =>
        /\ Len(result.value) = Len(result.args)
        /\ \A i \in 1..Len(result.args) : result.value[i][1] = result.args[i]

C2_Witness ==
    /\ result.fn = "getMeteorsPerYear"
    /\ result.raised = ""
    /\ result.args = <<1970, 860>>

\* C3: no aggregation call changes the loaded table or process-wide state:
\* the frame still has the rows and columns it was loaded with and the
\* pandas display option is as it was at start.
C3_NoStateMutated ==
    /\ meteordf = read_csv
    /\ float_format = None

\* The names, in row order, of the rows whose name is present and begins
\* with a character whose upper case is k.
NamesUnder(k) ==
    LET g == SelectSeq(file, LAMBDA r : r["name"] # NaN /\ Upper(Head(r["name"])) = k)
    IN  [i \in 1..Len(g) |-> g[i]["name"]]

YearPresent(y) == \E i \in 1..Len(file) : file[i]["year"] = <<y>>

\* C5: getMeteorsPerYear raises KeyError when a requested year has no row in
\* the table, and otherwise returns one entry per requested year.
C5_AbsentYearRaises ==
    result.fn = "getMeteorsPerYear" =>
        IF \E i \in 1..Len(result.args) : ~YearPresent(result.args[i])
        THEN result.raised = "KeyError"
        ELSE /\ result.raised = ""
             /\ Len(result.value) = Len(result.args)
             /\ \A i \in 1..Len(result.args) : result.value[i][1] = result.args[i]

C5_Witness ==
    /\ result.fn = "getMeteorsPerYear"
    /\ result.args = <<860, 1999>>
    /\ YearPresent(860)
    /\ result.raised = "KeyError"

-----------------------------------------------------------------------------
(* Properties of a browser session, checked under Spec *)

PageFn(page) ==
    CASE page = "Home"           -> "homePage"
      [] page = "Map"            -> "mapPage"
      [] page = "Year"           -> "meteorYearsPage"
      [] page = "Classification" -> "classificationPage"
      [] page = "Names"          -> "namepage"

\* After every run the page value is a menu entry, it is the entry selected
\* in the sidebar, and the page shown is the page of that entry.
C6_PageIsSelected ==
    result.fn # "" =>
        /\ session_state.page \in Range(Menu)
        /\ session_state.page = navigation
        /\ result.fn = PageFn(session_state.page)

\* The first run, with nothing selected, sets Home; later the page value
\* changes only together with the sidebar selection, and to that selection.
C6_PageStep ==
    /\ session_state.page = Unset => session_state'.page = "Home"
    /\ (session_state.page # Unset /\ session_state'.page # session_state.page) =>
          (navigation' # navigation /\ session_state'.page = navigation')

\* C6: the page value main() dispatches on is always one of Home, Map, Year,
\* Classification, Names; it is Home on the first run; it changes only when
\* another menu entry is selected; and the page shown is the page selected.
C6_Navigation == [](C6_PageIsSelected) /\ [][C6_PageStep]_vars

C6_Witness ==
    /\ session_state.page = "Names"
    /\ navigation = "Names"
    /\ result.fn = "namepage"

\* What a page shows on a newly loaded frame with its widgets at their defaults.
FreshRender(page) == Dispatch(page, read_csv, <<>>, None, <<>>, FALSE).shown

\* C7: when the latest render raised and the user selects another page, that
\* page is the one shown, and it shows what it shows in a session where
\* nothing failed before.
C7_SwitchRecovers ==
    [][(result.raised # "" /\ navigation' # navigation) =>
          /\ session_state'.page = navigation'
          /\ result' = FreshRender(navigation')]_vars

C7_Witness ==
    /\ prevRaised = "KeyError"
    /\ result.fn = "mapPage"
    /\ result.raised = ""

\* C8: the classification page never calls sortClassAndFindValues with a
\* classification it offered that has no row left after dropna: rendering
\* the page for an offered classification does not raise.
C8_OfferedClassSummarizes ==
    (result.fn = "classificationPage" /\ classInput # None) => result.raised = ""

\* C9: the years the year page passes to getMeteorsPerYear are all labels of
\* the grouped year counts, so the page does not raise KeyError.
C9_YearPageNeverRaises ==
    result.fn = "meteorYearsPage" =>
        /\ result.args = yearsInput
        /\ Range(yearsInput) \subseteq Index(GroupByYearCount(read_csv))
        /\ result.raised = ""

C9_Witness ==
    /\ result.fn = "meteorYearsPage"
    /\ yearsInput = <<860>>
    /\ \A i \in 1..Len(file) : file[i]["year"] = <<860>> => file[i]["id"] = NaN
    /\ result.value = << <<860, 0>> >>

\* C10: every letter selected on the names page is a key of the name index,
\* so the page does not raise.
C10_SelectedLetterIsKey ==
    result.fn = "namepage" =>
        /\ \A i \in 1..Len(letterLst) : letterLst[i] \in DOMAIN sortName(read_csv).namesdict
        /\ result.raised = ""

====
